---- MODULE Spec2Model ----
(***************************************************************************)
(* Model of ggmpeg.py: make_video (file discovery, concat manifest,        *)
(* output path resolution, interpolation filter arguments, encoder run)    *)
(* and parse_choice.                                                       *)
(*                                                                         *)
(* Spec follows one call of make_video from its arguments to its return    *)
(* or to the exception it raises; SpecParse applies parse_choice to one    *)
(* typed text.  Paths follow posixpath.                                    *)
(*                                                                         *)
(* Strings are sequences of one-character strings, so that escaping,       *)
(* suffix removal, globbing, truncation and number parsing are computed    *)
(* character by character as the Python code computes them.                *)
(* Durations are fixed-point numbers in units of 1e-8 second; input_fps is *)
(* given in tenths of a frame per second.                                  *)
(***************************************************************************)
EXTENDS Integers, Sequences, FiniteSets, TLC

VARIABLES
    pc,               \* position of make_video: "get_files" .. "returned" / "raised"
    args,             \* the arguments of the call of make_video
    listing,          \* the file names in the input directory, in listing order
    input_fullpaths,  \* result of get_files
    frame_duration,   \* seconds per frame, in 1e-8 s
    concat_file,      \* contents of ~ffmpeg_inputs.txt
    output_filepath,  \* resolved output path (<<>> while unset)
    stream,           \* the ffmpeg stream graph under construction
    encoder,          \* what the external encoder was asked to do and its outcome
    captured,         \* whether the locals out, err of make_video are bound
    printed,          \* diagnostics printed so far
    p_pc,             \* position of the parse_choice harness
    p_in,             \* arguments of the call of parse_choice
    p_out,            \* its return value and diagnostics
    m_pc,             \* position of the command-line loop of __main__
    c_in,             \* the text last typed at a prompt
    cli,              \* input_dir, input_pattern and output_filename of __main__
    choices,          \* the option table __main__ builds
    option_i,         \* index of the loop over filter_options.keys()
    retry_loop,       \* the flag of the while loop
    calls,            \* number of calls of make_video made by __main__
    runs              \* the invocations that share the working directory

vars == <<pc, args, listing, input_fullpaths, frame_duration, concat_file,
          output_filepath, stream, encoder, captured, printed, p_pc, p_in, p_out,
          m_pc, c_in, cli, choices, option_i, retry_loop, calls, runs>>

mv_vars == <<pc, args, listing, input_fullpaths, frame_duration, concat_file,
             output_filepath, stream, encoder, captured, printed>>

p_vars == <<p_pc, p_in, p_out>>

d_vars == <<m_pc, c_in, cli, choices, option_i, retry_loop, calls>>

c_vars == <<runs>>

----------------------------------------------------------------------------
(* Bounds of the model *)

MaxFiles == 2       \* files in the input directory
MaxRepeat == 3      \* largest final_frame_dur
MaxLen == 3         \* longest text given to parse_choice alone
MaxTyped == 1       \* longest free text typed at a prompt of __main__

----------------------------------------------------------------------------
(* String helpers (Python str methods used by the code) *)

Rep(c, n) == [i \in 1..n |-> c]

Drop(s, n) == SubSeq(s, n + 1, Len(s))

Take(s, n) == SubSeq(s, 1, IF n < Len(s) THEN n ELSE Len(s))

StartsWith(s, t) == Len(t) <= Len(s) /\ SubSeq(s, 1, Len(t)) = t

EndsWith(s, t) == Len(t) <= Len(s) /\ SubSeq(s, Len(s) - Len(t) + 1, Len(s)) = t

\* t in s
Contains(s, t) == \E i \in 0..(Len(s) - Len(t)) : SubSeq(s, i + 1, i + Len(t)) = t

\* s.removesuffix(t)
RemoveSuffix(s, t) == IF t # <<>> /\ EndsWith(s, t) THEN SubSeq(s, 1, Len(s) - Len(t)) ELSE s

\* the concatenation of the sequences ss[lo], ..., ss[hi]
RECURSIVE ConcatRange(_, _, _)
ConcatRange(ss, lo, hi) ==
    IF lo > hi THEN <<>>
    ELSE IF lo = hi THEN ss[lo]
    ELSE LET mid == (lo + hi) \div 2
         IN  ConcatRange(ss, lo, mid) \o ConcatRange(ss, mid + 1, hi)

Concat(ss) == ConcatRange(ss, 1, Len(ss))

\* s.replace(a, t) for a single character a
ReplaceChar(s, a, t) == Concat([i \in 1..Len(s) |-> IF s[i] = a THEN t ELSE <<s[i]>>])

\* index of the last "/" in p, 0 when there is none
LastSlash(p) == IF \E i \in 1..Len(p) : p[i] = "/"
                THEN CHOOSE i \in 1..Len(p) : p[i] = "/" /\ \A j \in (i + 1)..Len(p) : p[j] # "/"
                ELSE 0

RECURSIVE RStripSlash(_)
RStripSlash(s) == IF s # <<>> /\ s[Len(s)] = "/" THEN RStripSlash(SubSeq(s, 1, Len(s) - 1)) ELSE s

\* posixpath.dirname
Dirname(p) ==
    LET head == SubSeq(p, 1, LastSlash(p))
    IN  IF head # <<>> /\ head # Rep("/", Len(head)) THEN RStripSlash(head) ELSE head

\* posixpath.basename
Basename(p) == Drop(p, LastSlash(p))

\* posixpath.join of two components
Join(a, b) ==
    IF StartsWith(b, <<"/">>) THEN b
    ELSE IF a = <<>> \/ EndsWith(a, <<"/">>) THEN a \o b
    ELSE a \o <<"/">> \o b

Cwd == <<"/", "w">>

\* posixpath.abspath on the paths of the model (no "..", no doubled slashes)
Abspath(p) ==
    IF StartsWith(p, <<"/">>) THEN p
    ELSE IF p = <<".">> THEN Cwd
    ELSE Join(Cwd, p)

PNG == <<".", "p", "n", "g">>
MP4 == <<".", "m", "p", "4">>


----------------------------------------------------------------------------
(* Program constants *)

MAX_PATH == 260

\* the enum members used as option keys: <<enum class, member value>>
GeneralOpt_input_fps == <<"GeneralOpt", "input_fps">>
IntrpOpt_fps == <<"IntrpOpt", "fps">>
IntrpOpt_mi_mode == <<"IntrpOpt", "mi_mode">>
IntrpOpt_mc_mode == <<"IntrpOpt", "mc_mode">>
IntrpOpt_vsbmc == <<"IntrpOpt", "vsbmc">>
IntrpOpt_me == <<"IntrpOpt", "me">>
IntrpOpt_mb_size == <<"IntrpOpt", "mb_size">>
TextOpt_text == <<"TextOpt", "text">>
TextOpt_font_size == <<"TextOpt", "fontsize">>

\* arg.value
EnumValue(member) == member[2]

MODE_OPTS_BLEND_AsMci == {"fps", "mi_mode", "mc_mode", "vsbmc", "me", "mb_size"}

MODE_OPTS_BLEND == {"fps", "mi_mode"}

MODE_OPTS_MCI == {"fps", "mi_mode", "mc_mode", "vsbmc", "me", "mb_size"}

BLEND == <<"b", "l", "e", "n", "d">>
MCI == <<"m", "c", "i">>
DUP == <<"d", "u", "p">>

----------------------------------------------------------------------------
(* get_files *)

\* fnmatch of a name against a pattern whose only wildcard is "*"
RECURSIVE FnMatch(_, _)
FnMatch(pat, s) ==
    IF pat = <<>> THEN s = <<>>
    ELSE IF Head(pat) = "*"
         THEN FnMatch(Tail(pat), s) \/ (s # <<>> /\ FnMatch(pat, Tail(s)))
         ELSE s # <<>> /\ Head(s) = Head(pat) /\ FnMatch(Tail(pat), Tail(s))

\* glob(): the names of the directory that match the last component of the
\* pattern, in listing order, each joined to the directory of the pattern;
\* names starting with "." are skipped unless the pattern starts with "."
Glob(pathglob, names) ==
    LET dir == Dirname(pathglob)
        pat == Basename(pathglob)
        hidden(n) == n # <<>> /\ n[1] = "."
        hit(n) == FnMatch(pat, n) /\ (hidden(n) => hidden(pat))
    IN  Concat([i \in 1..Len(names) |->
                   IF hit(names[i]) THEN <<Join(dir, names[i])>> ELSE <<>>])

get_files(input_dir, input_pattern, names) ==
    LET prefix == IF input_pattern # <<>> THEN <<"*">> ELSE <<>>
        ext == IF ~Contains(input_pattern, PNG) THEN <<"*">> \o PNG ELSE <<"*">>
        input_path_root == Abspath(input_dir)
        input_path_glob == ReplaceChar(Join(input_path_root, prefix \o input_pattern \o ext),
                                       "\\", <<"/">>)
    IN  [glob |-> input_path_glob, fullpaths |-> Glob(input_path_glob, names)]

----------------------------------------------------------------------------
(* The concat manifest *)

\* round(1/fps, 8) in units of 1e-8 s, fps given in tenths: 10^9 / tenths,
\* rounded half to even
FrameDuration(fps_tenths) ==
    LET q == 1000000000 \div fps_tenths
        r == 1000000000 % fps_tenths
    IN  IF 2 * r > fps_tenths THEN q + 1
        ELSE IF 2 * r < fps_tenths THEN q
        ELSE IF q % 2 = 0 THEN q ELSE q + 1

\* fullpath.replace("'", "\\'")
EscapeQuotes(fullpath) == ReplaceChar(fullpath, "'", <<"\\", "'">>)

\* the header line: "Total frames: <n>. Total duration: <n * frame_duration> s."
Header(fullpaths, duration) ==
    [frames |-> Len(fullpaths), duration |-> Len(fullpaths) * duration]

\* the records of the loop over the input files
FrameRecords(fullpaths, duration) ==
    [i \in 1..Len(fullpaths) |->
        [frame |-> i, repeat |-> 0, file |-> EscapeQuotes(fullpaths[i]), duration |-> duration]]

ExtraCount_OneTooMany(final_frame_dur) == IF final_frame_dur > 1 THEN final_frame_dur ELSE 0

\* range(int(final_frame_dur)-1), entered only when final_frame_dur > 1
ExtraCount(final_frame_dur) == IF final_frame_dur > 1 THEN final_frame_dur - 1 ELSE 0

\* the extra references to the final frame
RepeatRecords(fullpaths, duration, final_frame_dur) ==
    [j \in 1..ExtraCount(final_frame_dur) |->
        [frame |-> Len(fullpaths) + j, repeat |-> j + 1,
         file |-> fullpaths[Len(fullpaths)], duration |-> duration]]

NoFile == [exists |-> FALSE, header |-> [frames |-> 0, duration |-> 0], records |-> <<>>]

ManifestOf(fullpaths, duration, final_frame_dur) ==
    [exists |-> TRUE,
     header |-> Header(fullpaths, duration),
     records |-> FrameRecords(fullpaths, duration)
                 \o RepeatRecords(fullpaths, duration, final_frame_dur)]


----------------------------------------------------------------------------
(* Output path *)

TooLong_OneMore(p) == Len(p) > MAX_PATH + 1

\* len(output_filepath) > MAX_PATH
TooLong(p) == Len(p) > MAX_PATH

\* the test of the directory-only failure
DirTooLong_StrictGreater(used_chars) == used_chars > MAX_PATH

DirTooLong(used_chars) == used_chars >= MAX_PATH

\* the default output path, before the length check
DefaultOutputPath_Splitext(first) ==
    LET base == Basename(first)
        dots == {i \in 2..Len(base) : base[i] = "."}
        root == IF dots = {} THEN base
                ELSE SubSeq(base, 1, (CHOOSE i \in dots : \A j \in dots : j <= i) - 1)
    IN  Join(Dirname(Abspath(first)), root \o MP4)

DefaultOutputPath(first) == RemoveSuffix(Abspath(first), PNG) \o MP4

\* [ok, path, error]: the path make_video hands to the encoder, or the
\* diagnostic it prints before returning
ResolveOutputPath(output_filename, fullpaths) ==
    LET first == fullpaths[1]
    IN  IF output_filename = <<>>
        THEN LET derived == DefaultOutputPath(first)
                 path_dir == Dirname(first)
                 used_chars == Len(path_dir) + Len(<<"/", "/">>) + Len(MP4)
                 path_base == RemoveSuffix(Basename(first), PNG)
             IN  IF TooLong(derived)
                 THEN IF DirTooLong(used_chars)
                      THEN [ok |-> FALSE, path |-> <<>>, error |-> "dir_too_long"]
                      ELSE [ok |-> TRUE,
                            path |-> Join(path_dir, Take(path_base, MAX_PATH - used_chars) \o MP4),
                            error |-> ""]
                 ELSE [ok |-> TRUE, path |-> derived, error |-> ""]
        ELSE LET joined == Join(Dirname(first), output_filename)
             IN  IF TooLong(joined)
                 THEN [ok |-> FALSE, path |-> <<>>, error |-> "path_too_long"]
                 ELSE [ok |-> TRUE, path |-> joined, error |-> ""]

----------------------------------------------------------------------------
(* Filters *)

\* options_kwargs: arg.value -> options[arg] for the keys whose value is in
\* the mode's list
OptionsKwargs(options, mode_opts) ==
    LET keep == {k \in DOMAIN options : EnumValue(k) \in mode_opts}
    IN  [n \in {EnumValue(k) : k \in keep} |->
            options[CHOOSE k \in keep : EnumValue(k) = n]]

InterpolationFilter(options) ==
    IF options[IntrpOpt_mi_mode] = BLEND
    THEN <<[name |-> "minterpolate", kwargs |-> OptionsKwargs(options, MODE_OPTS_BLEND)]>>
    ELSE IF options[IntrpOpt_mi_mode] = MCI
    THEN <<[name |-> "minterpolate", kwargs |-> OptionsKwargs(options, MODE_OPTS_MCI)]>>
    ELSE <<>>

TextOverlayFilter(overlay_text) ==
    IF TextOpt_text \in DOMAIN overlay_text
    THEN <<[name |-> "drawtext",
            kwargs |-> [n \in {EnumValue(k) : k \in DOMAIN overlay_text} |->
                           overlay_text[CHOOSE k \in DOMAIN overlay_text : EnumValue(k) = n]]]>>
    ELSE <<>>

NoStream == [input |-> "", filters |-> <<>>, output |-> <<>>]

NoEncoder == [invoked |-> FALSE, failed |-> FALSE, manifest |-> NoFile,
              filters |-> <<>>, produced |-> <<>>]


----------------------------------------------------------------------------
(* Inputs of make_video *)

NameA == <<"a">> \o PNG                          \* a.png
NameQ == <<"a", "'", "b">> \o PNG                \* a'b.png
NameX == <<"c">> \o PNG \o <<".", "x">>          \* c.png.x
NameT == <<"n", ".", "t", "x", "t">>             \* n.txt

NamePool == {NameA, NameQ, NameX, NameT}

\* the directory listings: distinct names in any order
Listings == {l \in UNION {[1..n -> NamePool] : n \in 0..MaxFiles} :
                \A i, j \in 1..Len(l) : i # j => l[i] # l[j]}

PatternPool == {<<>>, <<"b">>, PNG}

\* an absolute directory of n characters
DirOfLen(n) == <<"/">> \o Rep("d", n - 1)

\* the working directory, and directories that leave 1, 0 and -1 characters
\* for the base name of the default output path
DirPool == {<<".">>, DirOfLen(MAX_PATH - 7), DirOfLen(MAX_PATH - 6), DirOfLen(MAX_PATH - 5)}

OutputNamePool == {<<>>, <<"o">> \o MP4}

FpsPool == {150, 70}

AOBMC == <<"a", "o", "b", "m", "c">>
EPZS == <<"e", "p", "z", "s">>

BaseOptions(fps_tenths, mode) ==
    (GeneralOpt_input_fps :> fps_tenths) @@ (IntrpOpt_fps :> 60) @@ (IntrpOpt_mi_mode :> mode)

MciOptions ==
    (IntrpOpt_mc_mode :> AOBMC) @@ (IntrpOpt_vsbmc :> <<"1">>) @@ (IntrpOpt_me :> EPZS)
    @@ (IntrpOpt_mb_size :> 16)

EmptyDict == [k \in {} |-> 0]

OptionPool(fps_pool) ==
    {BaseOptions(f, m) @@ x : f \in fps_pool, m \in {BLEND, MCI, DUP},
                              x \in {EmptyDict, MciOptions, (IntrpOpt_me :> EPZS)}}

OverlayPool == {EmptyDict,
                (TextOpt_text :> <<"h", "i">>) @@ (TextOpt_font_size :> 24),
                (TextOpt_font_size :> 24)}

Args(dir, pat, out, opts, overlay, r, dbg) ==
    [input_dir |-> dir, input_pattern |-> pat, output_filename |-> out, options |-> opts,
     overlay_text |-> overlay, final_frame_dur |-> r, debug |-> dbg]

\* calls that vary the directory contents, the pattern and the repeat count
ManifestCalls ==
    {Args(<<".">>, pat, <<>>, opts, EmptyDict, r, FALSE) :
        pat \in PatternPool, opts \in OptionPool(FpsPool) , r \in 1..MaxRepeat}

\* calls that vary the directory and the output file name
PathCalls ==
    {Args(dir, pat, out, BaseOptions(150, BLEND), EmptyDict, r, FALSE) :
        dir \in DirPool, pat \in PatternPool, out \in OutputNamePool, r \in {1, MaxRepeat}}

\* calls that vary the option table, the overlay and the debug flag
FilterCalls ==
    {Args(<<".">>, <<>>, <<>>, opts, overlay, 1, dbg) :
        opts \in OptionPool({150}), overlay \in OverlayPool, dbg \in BOOLEAN}

ArgPool == ManifestCalls \cup PathCalls \cup FilterCalls

----------------------------------------------------------------------------
(* make_video *)

ParseIdle == p_pc = "idle" /\ p_in = <<>> /\ p_out = <<>>

\* __main__ is not running: make_video is called directly
MainIdle ==
    /\ m_pc = "idle"
    /\ c_in = <<>>
    /\ cli = <<>>
    /\ choices = <<>>
    /\ option_i = 0
    /\ retry_loop = FALSE
    /\ calls = 0

\* no other invocation shares the working directory
RunsIdle == runs = <<>>

Init ==
    /\ args \in ArgPool
    /\ listing \in Listings
    /\ pc = "get_files"
    /\ input_fullpaths = <<>>
    /\ frame_duration = 0
    /\ concat_file = NoFile
    /\ output_filepath = <<>>
    /\ stream = NoStream
    /\ encoder = NoEncoder
    /\ captured = "unbound"
    /\ printed = <<>>
    /\ ParseIdle
    /\ MainIdle
    /\ RunsIdle

\* frame_duration, get_files, and the return when no file was found
GetFiles ==
    /\ pc = "get_files"
    /\ LET found == get_files(args.input_dir, args.input_pattern, listing)
       IN  /\ frame_duration' = FrameDuration(args.options[GeneralOpt_input_fps])
           /\ input_fullpaths' = found.fullpaths
           /\ IF Len(found.fullpaths) < 1
              THEN /\ printed' = printed \o <<"found", "no_files">>
                   /\ pc' = "returned"
              ELSE /\ printed' = Append(printed, "found")
                   /\ pc' = "write_manifest"
    /\ UNCHANGED <<args, listing, concat_file, output_filepath, stream, encoder, captured>>
    /\ UNCHANGED <<p_vars, d_vars, c_vars>>

\* with open(tmp_concat_file_name, "wb") ...
WriteManifest ==
    /\ pc = "write_manifest"
    /\ concat_file' = ManifestOf(input_fullpaths, frame_duration, args.final_frame_dur)
    /\ pc' = "resolve_path"
    /\ UNCHANGED <<args, listing, input_fullpaths, frame_duration, output_filepath, stream,
                   encoder, captured, printed>>
    /\ UNCHANGED <<p_vars, d_vars, c_vars>>

\* the output path, and the return when it is too long
ResolvePath ==
    /\ pc = "resolve_path"
    /\ LET res == ResolveOutputPath(args.output_filename, input_fullpaths)
       IN  IF res.ok
           THEN /\ output_filepath' = res.path
                /\ pc' = "build_stream"
                /\ UNCHANGED printed
           ELSE /\ printed' = Append(printed, res.error)
                /\ pc' = "returned"
                /\ UNCHANGED output_filepath
    /\ UNCHANGED <<args, listing, input_fullpaths, frame_duration, concat_file, stream,
                   encoder, captured>>
    /\ UNCHANGED <<p_vars, d_vars, c_vars>>

\* ffmpeg.input, the interpolation filter, the text overlay, ffmpeg.output
BuildStream ==
    /\ pc = "build_stream"
    /\ stream' = [input |-> "~ffmpeg_inputs.txt",
                  filters |-> InterpolationFilter(args.options)
                              \o TextOverlayFilter(args.overlay_text),
                  output |-> output_filepath]
    /\ pc' = "run"
    /\ UNCHANGED <<args, listing, input_fullpaths, frame_duration, concat_file,
                   output_filepath, encoder, captured, printed>>
    /\ UNCHANGED <<p_vars, d_vars, c_vars>>

\* the except clause: the Error is caught and its stdout and stderr printed
OnEncoderError(p) ==
    [pc |-> "debug", printed |-> p \o <<"ffmpeg_error", "stdout", "stderr">>]

\* ffmpeg.run inside try/except Error: the encoder reads the manifest and
\* either writes the output file or reports an error
RunEncoder ==
    /\ pc = "run"
    /\ \E fails \in BOOLEAN :
          /\ encoder' = [invoked |-> TRUE, failed |-> fails, manifest |-> concat_file,
                         filters |-> stream.filters,
                         produced |-> IF fails THEN <<>> ELSE stream.output]
          /\ IF fails
             THEN /\ pc' = OnEncoderError(printed).pc
                  /\ printed' = OnEncoderError(printed).printed
                  /\ UNCHANGED captured
             ELSE /\ captured' = "bound"
                  /\ pc' = "debug"
                  /\ UNCHANGED printed
    /\ UNCHANGED <<args, listing, input_fullpaths, frame_duration, concat_file,
                   output_filepath, stream>>
    /\ UNCHANGED <<p_vars, d_vars, c_vars>>

\* if debug: print out and err (an UnboundLocalError when they were never bound)
DebugPrint ==
    /\ pc = "debug"
    /\ IF args.debug
       THEN IF captured = "bound"
            THEN /\ printed' = printed \o <<"output", "error">>
                 /\ pc' = "returned"
            ELSE /\ pc' = "raised"
                 /\ UNCHANGED printed
       ELSE /\ pc' = "returned"
            /\ UNCHANGED printed
    /\ UNCHANGED <<args, listing, input_fullpaths, frame_duration, concat_file,
                   output_filepath, stream, encoder, captured>>
    /\ UNCHANGED <<p_vars, d_vars, c_vars>>

Next == GetFiles \/ WriteManifest \/ ResolvePath \/ BuildStream \/ RunEncoder \/ DebugPrint

Spec == Init /\ [][Next]_vars


----------------------------------------------------------------------------
(* Properties of make_video *)

Printed(tag) == \E i \in 1..Len(printed) : printed[i] = tag

\* the output path has been resolved or refused
PathSettled == pc \in {"build_stream", "run", "debug", "returned", "raised"}
               /\ input_fullpaths # <<>>

PathRefused == PathSettled /\ pc = "returned" /\ output_filepath = <<>>

\* the path a `file` line names once the quote escapes are undone
UnescapeQuotes(text) ==
    Concat([i \in 1..Len(text) |->
               IF text[i] = "\\" /\ i < Len(text) /\ text[i + 1] = "'" THEN <<>> ELSE <<text[i]>>])

\* C1: the manifest of N >= 1 input files and repeat count r >= 1 holds
\* exactly N + r - 1 frame records; the first N name the input files in input
\* order, the last r - 1 name the last input file, and every record carries
\* the same per-frame duration.
C1_ManifestRecords ==
    concat_file.exists =>
        LET N == Len(input_fullpaths)
            r == args.final_frame_dur
            recs == concat_file.records
        IN  /\ N >= 1
            /\ Len(recs) = N + r - 1
            /\ \A i \in 1..N : UnescapeQuotes(recs[i].file) = input_fullpaths[i]
            /\ \A i \in (N + 1)..Len(recs) : UnescapeQuotes(recs[i].file) = input_fullpaths[N]
            /\ \A i \in 1..Len(recs) : recs[i].duration = frame_duration
            /\ frame_duration = FrameDuration(args.options[GeneralOpt_input_fps])

C1_Witness ==
    /\ concat_file.exists
    /\ Len(input_fullpaths) >= 2
    /\ args.final_frame_dur >= 3
    /\ Len(concat_file.records) = Len(input_fullpaths) + 2

\* C2: every `file` line of the manifest, the extra records of a repeat
\* count > 1 included, is its input path with each single quote preceded by a
\* backslash and nothing else changed.
C2_EveryFileLineEscaped ==
    concat_file.exists =>
        LET N == Len(input_fullpaths)
            recs == concat_file.records
            src(i) == input_fullpaths[IF i <= N THEN i ELSE N]
        IN  \A i \in 1..Len(recs) : recs[i].file = EscapeQuotes(src(i))

\* C3: when no file is found, or the output path is refused as too long, the
\* run returns with a diagnostic: no stream is built, the encoder is never
\* invoked and no output file is produced.
C3_AbortsBeforeEncoder ==
    LET NoInput == pc # "get_files" /\ input_fullpaths = <<>>
        ExplicitOverflow ==
            /\ PathSettled
            /\ args.output_filename # <<>>
            /\ Len(Dirname(input_fullpaths[1])) + 1 + Len(args.output_filename) > MAX_PATH
        DirOverflow == PathSettled /\ args.output_filename = <<>> /\ Printed("dir_too_long")
    IN  /\ NoInput => Printed("no_files") /\ ~concat_file.exists
        /\ ExplicitOverflow => Printed("path_too_long")
        /\ (NoInput \/ ExplicitOverflow \/ DirOverflow) =>
               /\ pc = "returned"
               /\ stream = NoStream
               /\ ~encoder.invoked
               /\ encoder.produced = <<>>

C3_Witness ==
    /\ pc = "returned"
    /\ args.output_filename # <<>>
    /\ input_fullpaths # <<>>
    /\ Printed("path_too_long")
    /\ ~encoder.invoked

\* C4: when the encoder reports an error, whatever the other arguments
\* (debug = true included), make_video prints the captured stdout and stderr
\* and returns without raising.
C4_EncoderErrorCaught ==
    encoder.failed =>
        /\ pc # "raised"
        /\ Printed("stdout") /\ Printed("stderr")

\* C7: the arguments of the interpolation filter are exactly the entries of
\* the option table whose key is in the active mode's set, values unchanged:
\* {fps, mi_mode} in blend mode, those and {mc_mode, vsbmc, me, mb_size} in
\* mci mode; input_fps is never passed.
C7_FilterArguments ==
    LET options == args.options
        mode == options[IntrpOpt_mi_mode]
        mode_set == IF mode = BLEND THEN {"fps", "mi_mode"}
                    ELSE {"fps", "mi_mode", "mc_mode", "vsbmc", "me", "mb_size"}
        held == {k[2] : k \in DOMAIN options}
    IN  (pc \in {"run", "debug", "returned", "raised"} /\ stream # NoStream
         /\ mode \in {BLEND, MCI}) =>
            /\ stream.filters # <<>>
            /\ stream.filters[1].name = "minterpolate"
            /\ DOMAIN stream.filters[1].kwargs = held \cap mode_set
            /\ \A k \in DOMAIN options :
                  k[2] \in mode_set => stream.filters[1].kwargs[k[2]] = options[k]
            /\ encoder.invoked => encoder.filters = stream.filters

C7_Witness ==
    /\ encoder.invoked
    /\ args.options[IntrpOpt_mi_mode] = BLEND
    /\ {IntrpOpt_mc_mode, IntrpOpt_vsbmc, IntrpOpt_me, IntrpOpt_mb_size, GeneralOpt_input_fps}
           \subseteq DOMAIN args.options
    /\ DOMAIN encoder.filters[1].kwargs = {"fps", "mi_mode"}

\* os.path.splitext of a file name: the name without its last extension
Stem(base) ==
    LET dots == {i \in 2..Len(base) : base[i] = "."}
    IN  IF dots = {} THEN base
        ELSE SubSeq(base, 1, (CHOOSE i \in dots : \A j \in dots : j <= i) - 1)

\* C8 (as claimed): with no output file name and a derived path within the
\* maximum length, the output path is the first input file's path with its
\* extension replaced by .mp4, for every first match.
C8_ExtensionReplaced ==
    (PathSettled /\ args.output_filename = <<>> /\ output_filepath # <<>>
     /\ Len(output_filepath) <= MAX_PATH) =>
        output_filepath = Dirname(input_fullpaths[1]) \o <<"/">>
                          \o Stem(Basename(input_fullpaths[1])) \o MP4

\* C8 (amended): with no output file name and a derived path within the
\* maximum length, the output path is the first input file's path with a
\* trailing .png removed when there is one, and .mp4 appended; a first match
\* whose name does not end in .png keeps its whole name.
C8_PngSuffixReplaced ==
    LET first == input_fullpaths[1]
        base == Basename(first)
        name == IF EndsWith(base, PNG) THEN SubSeq(base, 1, Len(base) - 4) ELSE base
        derived == Dirname(first) \o <<"/">> \o name \o MP4
    IN  (PathSettled /\ args.output_filename = <<>> /\ Len(derived) <= MAX_PATH) =>
            output_filepath = derived

C8_Witness ==
    /\ PathSettled
    /\ args.output_filename = <<>>
    /\ Basename(input_fullpaths[1]) = NameX
    /\ Basename(output_filepath) = NameX \o MP4

\* C9: the header of the manifest states the number of frame records of the
\* manifest and that number times the per-frame duration.
C9_HeaderCountsRecords ==
    concat_file.exists =>
        /\ concat_file.header.frames = Len(concat_file.records)
        /\ concat_file.header.duration = Len(concat_file.records) * frame_duration

\* the default-file-name branch found its derived path longer than MAX_PATH
DefaultOverflow ==
    /\ PathSettled
    /\ args.output_filename = <<>>
    /\ Len(RemoveSuffix(input_fullpaths[1], PNG)) + 4 > MAX_PATH

\* dir + "/" + a non-empty prefix of the base name + ".mp4", within MAX_PATH
TruncatedShape ==
    LET first == input_fullpaths[1]
    IN  /\ Len(output_filepath) <= MAX_PATH
        /\ \E n \in 1..Len(Basename(first)) :
              output_filepath = Dirname(first) \o <<"/">>
                                \o SubSeq(Basename(first), 1, n) \o MP4

\* C10 (as claimed): when the derived default path exceeds MAX_PATH,
\* resolution fails exactly when len(dir) + len('/') + len('.mp4') exceeds
\* MAX_PATH, and otherwise returns dir + '/' + a non-empty prefix of the base
\* name + '.mp4' of total length at most MAX_PATH.
C10_FailsWhenDirPlus5Exceeds ==
    DefaultOverflow =>
        /\ PathRefused <=> (Len(Dirname(input_fullpaths[1])) + 1 + 4 > MAX_PATH)
        /\ ~PathRefused => TruncatedShape

\* C10 (amended): when the derived default path exceeds MAX_PATH, resolution
\* fails exactly when len(dir) + len('//') + len('.mp4') reaches MAX_PATH
\* (len(dir) >= MAX_PATH - 6), and otherwise returns dir + '/' + a non-empty
\* prefix of the base name + '.mp4' of total length at most MAX_PATH.
C10_FailsWhenDirPlus6Reaches ==
    DefaultOverflow =>
        /\ PathRefused <=> (Len(Dirname(input_fullpaths[1])) + 2 + 4 >= MAX_PATH)
        /\ PathRefused => Printed("dir_too_long") /\ ~encoder.invoked
        /\ ~PathRefused => TruncatedShape

C10_Witness ==
    /\ DefaultOverflow
    /\ ~PathRefused
    /\ Len(output_filepath) < Len(RemoveSuffix(input_fullpaths[1], PNG)) + 4
    /\ TruncatedShape


----------------------------------------------------------------------------
(* parse_choice *)

IsSpace(c) == c = " "

RECURSIVE LStrip(_)
LStrip(s) == IF s # <<>> /\ IsSpace(s[1]) THEN LStrip(Tail(s)) ELSE s

RECURSIVE RStrip(_)
RStrip(s) == IF s # <<>> /\ IsSpace(s[Len(s)]) THEN RStrip(SubSeq(s, 1, Len(s) - 1)) ELSE s

\* str.strip()
Strip(s) == LStrip(RStrip(s))

\* str.lower() on the letters of the model
LowerChar(c) == IF c = "D" THEN "d" ELSE IF c = "S" THEN "s" ELSE c

Lower(s) == [i \in 1..Len(s) |-> LowerChar(s[i])]

Digits == <<"0", "1", "2", "3", "4", "5", "6", "7", "8", "9">>

IsDigit(c) == \E i \in 1..10 : Digits[i] = c

DigitValue(c) == (CHOOSE i \in 1..10 : Digits[i] = c) - 1

\* digits, with single underscores allowed between two digits
IsDigitRun(s) ==
    /\ s # <<>>
    /\ IsDigit(s[1]) /\ IsDigit(s[Len(s)])
    /\ \A i \in 1..Len(s) : IsDigit(s[i]) \/ s[i] = "_"
    /\ \A i \in 1..(Len(s) - 1) : ~(s[i] = "_" /\ s[i + 1] = "_")

\* the value of the digits of s read in base ten, underscores skipped
RECURSIVE DecimalValue(_)
DecimalValue(s) ==
    IF s = <<>> THEN 0
    ELSE IF s[Len(s)] = "_" THEN DecimalValue(SubSeq(s, 1, Len(s) - 1))
    ELSE 10 * DecimalValue(SubSeq(s, 1, Len(s) - 1)) + DigitValue(s[Len(s)])

RECURSIVE DigitCount(_)
DigitCount(s) == IF s = <<>> THEN 0
                 ELSE (IF IsDigit(Head(s)) THEN 1 ELSE 0) + DigitCount(Tail(s))

RECURSIVE Pow10(_)
Pow10(k) == IF k = 0 THEN 1 ELSE 10 * Pow10(k - 1)

HasSign(t) == t # <<>> /\ t[1] \in {"+", "-"}

\* int(choice): [ok, v]; ok is FALSE where Python raises ValueError
PyInt(choice) ==
    LET t == Strip(choice)
        body == IF HasSign(t) THEN Tail(t) ELSE t
        sign == IF t # <<>> /\ t[1] = "-" THEN -1 ELSE 1
    IN  IF IsDigitRun(body) THEN [ok |-> TRUE, v |-> sign * DecimalValue(body)]
        ELSE [ok |-> FALSE, v |-> 0]

\* float(choice) on decimal literals without exponent: [ok, num, scale] stands
\* for num / 10^scale
PyFloat(choice) ==
    LET t == Strip(choice)
        body == IF HasSign(t) THEN Tail(t) ELSE t
        sign == IF t # <<>> /\ t[1] = "-" THEN -1 ELSE 1
        dots == {i \in 1..Len(body) : body[i] = "."}
        dot == IF dots = {} THEN Len(body) + 1 ELSE CHOOSE i \in dots : TRUE
        int_part == SubSeq(body, 1, dot - 1)
        frac_part == SubSeq(body, dot + 1, Len(body))
        well_formed == /\ Cardinality(dots) <= 1
                       /\ int_part = <<>> \/ IsDigitRun(int_part)
                       /\ frac_part = <<>> \/ IsDigitRun(frac_part)
                       /\ int_part # <<>> \/ frac_part # <<>>
    IN  IF well_formed
        THEN [ok |-> TRUE,
              num |-> sign * (DecimalValue(int_part) * Pow10(DigitCount(frac_part))
                              + DecimalValue(frac_part)),
              scale |-> DigitCount(frac_part)]
        ELSE [ok |-> FALSE, num |-> 0, scale |-> 0]

\* Python values: int, float (num / 10^scale) and str
IntV(n) == [t |-> "int", num |-> n, scale |-> 0, s |-> <<>>]

RECURSIVE FloatV(_, _)
FloatV(n, k) == IF k > 0 /\ n % 10 = 0 THEN FloatV(n \div 10, k - 1)
                ELSE [t |-> "float", num |-> n, scale |-> k, s |-> <<>>]

StrV(str) == [t |-> "str", num |-> 0, scale |-> 0, s |-> str]

\* the option shapes: a tuple of two ints, a tuple of two floats, a list of
\* strings, and anything else
IntRange(lo, hi) == [kind |-> "int_tuple", lo |-> IntV(lo), hi |-> IntV(hi), opts |-> <<>>]

FloatRange(lo, hi) == [kind |-> "float_tuple", lo |-> lo, hi |-> hi, opts |-> <<>>]

StrList(opts) == [kind |-> "list", lo |-> IntV(0), hi |-> IntV(0), opts |-> opts]

OtherShape == [kind |-> "other", lo |-> IntV(0), hi |-> IntV(0), opts |-> <<>>]

\* a <= b for numbers a.num / 10^a.scale and b.num / 10^b.scale
NumLeq(a, b) == a.num * Pow10(b.scale) <= b.num * Pow10(a.scale)

InRange_Exclusive(lo, v, hi) == ~NumLeq(v, lo) /\ ~NumLeq(hi, v)

\* options[0] <= choice <= options[1]
InRange(lo, v, hi) == NumLeq(lo, v) /\ NumLeq(v, hi)

Normalized_NoLower(choice) == Strip(choice)

\* choice.strip().lower()
Normalized(choice) == Lower(Strip(choice))

\* the first option equal to the normalized choice: <<opt>>, or <<>>
FirstMatch(choice, opts) ==
    LET hits == {i \in 1..Len(opts) : Normalized(choice) = opts[i]}
    IN  IF hits = {} THEN <<>>
        ELSE <<opts[CHOOSE i \in hits : \A j \in hits : i <= j]>>

\* [value, printed]: the return value and the diagnostics printed
parse_choice(choice, options, default) ==
    IF choice = <<>> THEN [value |-> default, printed |-> <<>>]
    ELSE IF options.kind = "int_tuple"
    THEN IF ~PyInt(choice).ok
         THEN [value |-> default, printed |-> <<"cannot_parse_int">>]
         ELSE IF ~InRange(options.lo, IntV(PyInt(choice).v), options.hi)
         THEN [value |-> default, printed |-> <<"invalid_value">>]
         ELSE [value |-> IntV(PyInt(choice).v), printed |-> <<>>]
    ELSE IF options.kind = "float_tuple"
    THEN IF ~PyFloat(choice).ok
         THEN [value |-> default, printed |-> <<"cannot_parse_float">>]
         ELSE LET v == FloatV(PyFloat(choice).num, PyFloat(choice).scale)
              IN  IF ~InRange(options.lo, v, options.hi)
                  THEN [value |-> default, printed |-> <<"invalid_value">>]
                  ELSE [value |-> v, printed |-> <<>>]
    ELSE IF options.kind = "list"
    THEN IF FirstMatch(choice, options.opts) # <<>>
         THEN [value |-> StrV(FirstMatch(choice, options.opts)[1]), printed |-> <<>>]
         ELSE [value |-> default, printed |-> <<"unrecognized_value">>]
    ELSE [value |-> default, printed |-> <<"something_went_wrong">>]

----------------------------------------------------------------------------
(* Calls of parse_choice *)

Alphabet == {"0", "1", "4", "-", "+", "_", ".", " ", "d", "D", "s"}

Texts == UNION {[1..n -> Alphabet] : n \in 0..MaxLen}

ME_OPTIONS == <<<<"d", "s">>, EPZS, <<"e", "s", "a">>, <<"f", "s", "s">>,
                <<"h", "e", "x", "b", "s">>, <<"n", "t", "s", "s">>, <<"t", "d", "l", "s">>,
                <<"t", "s", "s">>, <<"u", "m", "h">>>>

\* the shapes and defaults the prompts use, and a shape of no known kind
ShapePool ==
    {[options |-> IntRange(1, 144), default |-> IntV(60)],
     [options |-> FloatRange(FloatV(1, 1), FloatV(144, 0)), default |-> FloatV(15, 0)],
     [options |-> StrList(<<<<"0">>, <<"1">>>>), default |-> StrV(<<"1">>)],
     [options |-> StrList(ME_OPTIONS), default |-> StrV(EPZS)],
     [options |-> OtherShape, default |-> StrV(<<"1">>)]}

MakeVideoIdle ==
    /\ pc = "idle"
    /\ args = <<>>
    /\ listing = <<>>
    /\ input_fullpaths = <<>>
    /\ frame_duration = 0
    /\ concat_file = NoFile
    /\ output_filepath = <<>>
    /\ stream = NoStream
    /\ encoder = NoEncoder
    /\ captured = "unbound"
    /\ printed = <<>>

InitParse ==
    /\ MakeVideoIdle
    /\ MainIdle
    /\ RunsIdle
    /\ p_pc = "call"
    /\ \E c \in Texts, sh \in ShapePool :
          p_in = [choice |-> c, options |-> sh.options, default |-> sh.default]
    /\ p_out = <<>>

ParseChoice ==
    /\ p_pc = "call"
    /\ p_out' = parse_choice(p_in.choice, p_in.options, p_in.default)
    /\ p_pc' = "done"
    /\ UNCHANGED <<p_in, mv_vars, d_vars, c_vars>>

NextParse == ParseChoice

SpecParse == InitParse /\ [][NextParse]_vars

\* C5: parse_choice with an integer range [a, b] and non-empty input returns
\* the default and prints a diagnostic when the input is no integer literal
\* or its value lies outside [a, b], and returns exactly the parsed integer
\* when it lies within [a, b], a and b included.
C5_IntegerRange ==
    (p_pc = "done" /\ p_in.options.kind = "int_tuple" /\ p_in.choice # <<>>) =>
        LET a == p_in.options.lo.num
            b == p_in.options.hi.num
            parsed == PyInt(p_in.choice)
        IN  IF parsed.ok /\ a <= parsed.v /\ parsed.v <= b
            THEN p_out.value = [t |-> "int", num |-> parsed.v, scale |-> 0, s |-> <<>>]
                 /\ p_out.printed = <<>>
            ELSE p_out.value = p_in.default /\ p_out.printed # <<>>

C5_Witness ==
    /\ p_pc = "done"
    /\ p_in.options.kind = "int_tuple"
    /\ p_in.choice = <<"1", "4", "4">>
    /\ p_in.options.hi.num = 144
    /\ p_out.value.t = "int" /\ p_out.value.num = 144

\* C6: parse_choice with an enumerated set and non-empty input returns the
\* first member equal to the trimmed, lower-cased input, and returns the
\* default with a diagnostic when no member equals it; the result is always
\* a member of the set or the default.
C6_EnumeratedSet ==
    (p_pc = "done" /\ p_in.options.kind = "list" /\ p_in.choice # <<>>) =>
        LET opts == p_in.options.opts
            key == Lower(Strip(p_in.choice))
            hits == {i \in 1..Len(opts) : opts[i] = key}
        IN  /\ hits # {} =>
                 /\ p_out.value.t = "str"
                 /\ p_out.value.s = opts[CHOOSE i \in hits : \A j \in hits : i <= j]
                 /\ p_out.printed = <<>>
            /\ hits = {} => p_out.value = p_in.default /\ p_out.printed # <<>>
            /\ \/ p_out.value = p_in.default
               \/ \E i \in 1..Len(opts) : p_out.value.t = "str" /\ p_out.value.s = opts[i]

C6_Witness ==
    /\ p_pc = "done"
    /\ p_in.choice = <<" ", "D", "s">>
    /\ p_out.value.t = "str"
    /\ p_out.value.s = <<"d", "s">>
    /\ p_out.value # p_in.default


----------------------------------------------------------------------------
(* __main__: the command-line loop *)

OBMC == <<"o", "b", "m", "c">>

\* filter_options.keys(), in insertion order
FilterOptionKeys == <<IntrpOpt_mc_mode, IntrpOpt_vsbmc, IntrpOpt_me, IntrpOpt_mb_size>>

filter_options(option) ==
    IF option = IntrpOpt_mc_mode THEN StrList(<<AOBMC, OBMC>>)
    ELSE IF option = IntrpOpt_vsbmc THEN StrList(<<<<"0">>, <<"1">>>>)
    ELSE IF option = IntrpOpt_me THEN StrList(ME_OPTIONS)
    ELSE IntRange(1, 512)

filter_defaults_IntVsbmc(option) ==
    IF option = IntrpOpt_mc_mode THEN StrV(AOBMC)
    ELSE IF option = IntrpOpt_vsbmc THEN IntV(1)
    ELSE IF option = IntrpOpt_me THEN StrV(EPZS)
    ELSE IntV(16)

filter_defaults(option) ==
    IF option = IntrpOpt_mc_mode THEN StrV(AOBMC)
    ELSE IF option = IntrpOpt_vsbmc THEN StrV(<<"1">>)
    ELSE IF option = IntrpOpt_me THEN StrV(EPZS)
    ELSE IntV(16)

\* the shapes and defaults of the three general option prompts
InputFpsShape == [options |-> FloatRange(FloatV(1, 1), FloatV(144, 0)), default |-> FloatV(15, 0)]

FpsShape == [options |-> IntRange(1, 144), default |-> IntV(60)]

MiModeShape == [options |-> StrList(<<BLEND, MCI>>), default |-> StrV(MCI)]

\* what can be typed at an option prompt: any short text, and the words and
\* numbers that reach the accepted values and the edges of the ranges
TypedAlphabet == {"1", "x", " "}

TypedWords ==
    {BLEND, <<"b", "l", "e", "n", "D", " ">>, OBMC, <<"0">>, <<"d", "s">>,
     <<"5", "1", "2">>, <<"5", "1", "3">>, <<"1", "4", "4">>,
     <<"0", ".", "1">>, <<"1", "4", "4", ".", "0">>}

Typed == UNION {[1..n -> TypedAlphabet] : n \in 0..MaxTyped} \cup TypedWords

\* what is typed at the three path prompts
TypedDirs == {<<>>, <<" ", ".">>}

TypedPatterns == {<<>>, <<" ">>}

TypedOutputs == {<<>>, <<"o">>, Rep("o", MAX_PATH)}

\* the directory contents the command-line runs meet
MainListings == {<<>>, <<NameA>>}

\* the value make_video computes with: a number of tenths for input_fps (the
\* numbers typed hold at most one decimal), the int or the str otherwise
Unwrap(key, value) ==
    IF value.t = "str" THEN value.s
    ELSE IF key = GeneralOpt_input_fps
    THEN IF value.scale = 0 THEN 10 * value.num ELSE value.num
    ELSE value.num

InitMain ==
    /\ pc = "idle"
    /\ args = <<>>
    /\ listing \in MainListings
    /\ input_fullpaths = <<>>
    /\ frame_duration = 0
    /\ concat_file = NoFile
    /\ output_filepath = <<>>
    /\ stream = NoStream
    /\ encoder = NoEncoder
    /\ captured = "unbound"
    /\ printed = <<>>
    /\ ParseIdle
    /\ RunsIdle
    /\ m_pc = "loop_test"
    /\ c_in = <<>>
    /\ cli = [input_dir |-> <<>>, input_pattern |-> <<>>, output_filename |-> <<>>]
    /\ choices = EmptyDict
    /\ option_i = 0
    /\ retry_loop = TRUE
    /\ calls = 0

IdleMakeVideo == UNCHANGED <<mv_vars, p_vars, c_vars>>

\* while retry_loop: choices = {}; retry_loop = False
LoopTest ==
    /\ m_pc = "loop_test"
    /\ IF retry_loop
       THEN /\ choices' = EmptyDict
            /\ retry_loop' = FALSE
            /\ m_pc' = "input_dir"
       ELSE /\ m_pc' = "exit"
            /\ UNCHANGED <<choices, retry_loop>>
    /\ UNCHANGED <<c_in, cli, option_i, calls>>
    /\ IdleMakeVideo

AskInputDir ==
    /\ m_pc = "input_dir"
    /\ \E text \in TypedDirs :
          LET c == ReplaceChar(Strip(text), "\\", <<"/">>)
          IN  /\ c_in' = c
              /\ cli' = [cli EXCEPT !.input_dir = IF c # <<>> THEN c ELSE <<".">>]
    /\ m_pc' = "input_pattern"
    /\ UNCHANGED <<choices, option_i, retry_loop, calls>>
    /\ IdleMakeVideo

AskPattern ==
    /\ m_pc = "input_pattern"
    /\ \E text \in TypedPatterns :
          /\ c_in' = text
          /\ cli' = [cli EXCEPT !.input_pattern = IF Strip(text) # <<>> THEN Strip(text) ELSE <<>>]
    /\ m_pc' = "output_filename"
    /\ UNCHANGED <<choices, option_i, retry_loop, calls>>
    /\ IdleMakeVideo

\* the output file name, with ".mp4" appended when it holds none
AskOutput ==
    /\ m_pc = "output_filename"
    /\ \E text \in TypedOutputs :
          LET name == IF Strip(text) # <<>> THEN Strip(text) ELSE <<>>
          IN  /\ c_in' = text
              /\ cli' = [cli EXCEPT !.output_filename =
                            IF name # <<>> /\ ~Contains(Lower(name), MP4)
                            THEN name \o MP4 ELSE name]
    /\ m_pc' = "input_fps"
    /\ UNCHANGED <<choices, option_i, retry_loop, calls>>
    /\ IdleMakeVideo

\* choices[key] = parse_choice(c_in, shape, default)
Choose(key, shape, text) ==
    (key :> parse_choice(text, shape.options, shape.default).value) @@ choices

AskInputFps ==
    /\ m_pc = "input_fps"
    /\ \E text \in Typed :
          /\ c_in' = text
          /\ choices' = Choose(GeneralOpt_input_fps, InputFpsShape, text)
    /\ m_pc' = "fps"
    /\ UNCHANGED <<cli, option_i, retry_loop, calls>>
    /\ IdleMakeVideo

AskFps ==
    /\ m_pc = "fps"
    /\ \E text \in Typed :
          /\ c_in' = text
          /\ choices' = Choose(IntrpOpt_fps, FpsShape, text)
    /\ m_pc' = "mi_mode"
    /\ UNCHANGED <<cli, option_i, retry_loop, calls>>
    /\ IdleMakeVideo

\* the mode, and the test that opens the loop over the mci options
AskMiMode ==
    /\ m_pc = "mi_mode"
    /\ \E text \in Typed :
          /\ c_in' = text
          /\ choices' = Choose(IntrpOpt_mi_mode, MiModeShape, text)
    /\ IF choices'[IntrpOpt_mi_mode] = StrV(MCI)
       THEN m_pc' = "filter_options" /\ option_i' = 1
       ELSE m_pc' = "call" /\ UNCHANGED option_i
    /\ UNCHANGED <<cli, retry_loop, calls>>
    /\ IdleMakeVideo

\* one turn of: for option in filter_options.keys()
AskFilterOption ==
    /\ m_pc = "filter_options"
    /\ LET option == FilterOptionKeys[option_i]
       IN  \E text \in Typed :
              /\ c_in' = text
              /\ choices' = Choose(option,
                                   [options |-> filter_options(option),
                                    default |-> filter_defaults(option)], text)
    /\ IF option_i < Len(FilterOptionKeys)
       THEN option_i' = option_i + 1 /\ m_pc' = "filter_options"
       ELSE m_pc' = "call" /\ UNCHANGED option_i
    /\ UNCHANGED <<cli, retry_loop, calls>>
    /\ IdleMakeVideo

\* result = make_video(input_dir, input_pattern, output_filename, choices)
CallMakeVideo ==
    /\ m_pc = "call"
    /\ pc' = "get_files"
    /\ args' = Args(cli.input_dir, cli.input_pattern, cli.output_filename,
                    [k \in DOMAIN choices |-> Unwrap(k, choices[k])], EmptyDict, 1, FALSE)
    /\ input_fullpaths' = <<>>
    /\ frame_duration' = 0
    /\ output_filepath' = <<>>
    /\ stream' = NoStream
    /\ encoder' = NoEncoder
    /\ captured' = "unbound"
    /\ calls' = calls + 1
    /\ m_pc' = "in_call"
    /\ UNCHANGED <<listing, concat_file, printed, c_in, cli, choices, option_i, retry_loop>>
    /\ UNCHANGED <<p_vars, c_vars>>

RetryAfter_Always(flag) == TRUE

\* the flag after make_video has returned: nothing sets it
RetryAfter(flag) == flag

ReturnToMain ==
    /\ m_pc = "in_call"
    /\ pc = "returned"
    /\ retry_loop' = RetryAfter(retry_loop)
    /\ m_pc' = "loop_test"
    /\ UNCHANGED <<c_in, cli, choices, option_i, calls>>
    /\ IdleMakeVideo

NextMain ==
    \/ LoopTest \/ AskInputDir \/ AskPattern \/ AskOutput
    \/ AskInputFps \/ AskFps \/ AskMiMode \/ AskFilterOption
    \/ CallMakeVideo
    \/ GetFiles \/ WriteManifest \/ ResolvePath \/ BuildStream \/ RunEncoder \/ DebugPrint
    \/ ReturnToMain

SpecMain == InitMain /\ [][NextMain]_vars

----------------------------------------------------------------------------
(* The stages of a run of __main__ *)

ModeOptionKeys == {FilterOptionKeys[i] : i \in 1..Len(FilterOptionKeys)}

GeneralPrompts == {"input_dir", "input_pattern", "output_filename", "input_fps", "fps", "mi_mode"}

InMakeVideo == m_pc = "in_call"

Ended == (InMakeVideo /\ pc = "returned") \/ (calls > 0 /\ m_pc \in {"loop_test", "exit"})

Stage ==
    IF m_pc \in GeneralPrompts THEN "CollectingGeneralOptions"
    ELSE IF m_pc = "filter_options" THEN "CollectingModeOptions"
    ELSE IF m_pc = "call" THEN "OptionsCollected"
    ELSE IF Ended THEN (IF encoder.invoked /\ ~encoder.failed THEN "Done" ELSE "Failed")
    ELSE IF InMakeVideo /\ pc \in {"get_files", "write_manifest"} THEN "BuildingManifest"
    ELSE IF InMakeVideo /\ pc = "resolve_path" THEN "ResolvingOutputPath"
    ELSE IF InMakeVideo /\ pc \in {"build_stream", "run", "debug"} THEN "InvokingEncoder"
    ELSE "Started"

StageRank ==
    CASE Stage = "Started" -> 0
      [] Stage = "CollectingGeneralOptions" -> 1
      [] Stage = "CollectingModeOptions" -> 2
      [] Stage = "OptionsCollected" -> 3
      [] Stage = "BuildingManifest" -> 4
      [] Stage = "ResolvingOutputPath" -> 5
      [] Stage = "InvokingEncoder" -> 6
      [] Stage \in {"Done", "Failed"} -> 7

\* the mode options are in the table exactly when the parsed mode is mci
ModeOptionsIffMci ==
    /\ Stage = "CollectingModeOptions" => choices[IntrpOpt_mi_mode] = StrV(MCI)
    /\ StageRank >= 3 =>
          IF choices[IntrpOpt_mi_mode] = StrV(MCI)
          THEN ModeOptionKeys \subseteq DOMAIN choices
          ELSE ModeOptionKeys \cap DOMAIN choices = {}

\* the manifest of this call is on disk whenever the output path is being
\* resolved or has been resolved
ManifestBeforePath ==
    Stage \in {"ResolvingOutputPath", "InvokingEncoder"} =>
        /\ concat_file.exists
        /\ concat_file = ManifestOf(input_fullpaths, frame_duration, args.final_frame_dur)

\* make_video is called once, and the run ends after that call returned
CalledOnce ==
    /\ calls = (IF StageRank >= 4 THEN 1 ELSE 0)
    /\ pc # "raised"
    /\ m_pc = "exit" => Stage \in {"Done", "Failed"} /\ pc = "returned"

\* C11: a run of the command-line loop goes through the stages
\* CollectingGeneralOptions, CollectingModeOptions, BuildingManifest,
\* ResolvingOutputPath, InvokingEncoder in that order, never going back to an
\* earlier stage, and ends in Done or Failed; the mode options are collected
\* exactly when the parsed mode is mci, the manifest is written before the
\* output path is resolved, and make_video is called exactly once.
C11_StagesInOrder ==
    /\ [](ModeOptionsIffMci /\ ManifestBeforePath /\ CalledOnce)
    /\ [][StageRank' >= StageRank]_vars
    /\ [][Stage' = "CollectingModeOptions" /\ Stage # "CollectingModeOptions"
              => Stage = "CollectingGeneralOptions"]_vars

\* a run with mode mci that went through every stage and ended in Done
C11_Witness ==
    /\ m_pc = "exit"
    /\ Stage = "Done"
    /\ calls = 1
    /\ choices[IntrpOpt_mi_mode] = StrV(MCI)
    /\ ModeOptionKeys \subseteq DOMAIN choices
    /\ concat_file.exists

----------------------------------------------------------------------------
(* The option table __main__ hands to make_video *)

IsIntIn(v, lo, hi) == v.t = "int" /\ lo <= v.num /\ v.num <= hi

IsStrOf(v, opts) == v.t = "str" /\ \E i \in 1..Len(opts) : v.s = opts[i]

\* the declared shape of each key
FitsShape(key, v) ==
    IF key = GeneralOpt_input_fps
    THEN /\ v.t \in {"int", "float"}
         /\ LET scale == IF v.t = "float" THEN v.scale ELSE 0
            IN  Pow10(scale) <= 10 * v.num /\ v.num <= 144 * Pow10(scale)
    ELSE IF key = IntrpOpt_fps THEN IsIntIn(v, 1, 144)
    ELSE IF key = IntrpOpt_mi_mode THEN IsStrOf(v, <<BLEND, MCI>>)
    ELSE IF key = IntrpOpt_mc_mode THEN IsStrOf(v, <<AOBMC, OBMC>>)
    ELSE IF key = IntrpOpt_vsbmc THEN IsStrOf(v, <<<<"0">>, <<"1">>>>)
    ELSE IF key = IntrpOpt_me THEN IsStrOf(v, ME_OPTIONS)
    ELSE IF key = IntrpOpt_mb_size THEN IsIntIn(v, 1, 512)
    ELSE FALSE

GeneralKeys == {GeneralOpt_input_fps, IntrpOpt_fps, IntrpOpt_mi_mode}

\* the table is complete for its mode
CompleteTable(t) ==
    /\ GeneralKeys \subseteq DOMAIN t
    /\ t[IntrpOpt_mi_mode] = StrV(MCI) => ModeOptionKeys \subseteq DOMAIN t

\* the text just typed at the mc_mode prompt was blank
BlankMcMode == m_pc = "filter_options" /\ option_i = 2 /\ Strip(c_in) = <<>>

\* C12: whatever is typed at the prompts, every key of the option table
\* holds a value of its declared shape (input_fps in [0.1, 144.0], fps an
\* integer in [1, 144], mi_mode blend or mci, and under mci mc_mode, vsbmc, me
\* and mb_size in their sets and range); the table make_video receives is
\* complete, the stream it builds holds exactly one interpolation filter,
\* no prompt and no call ends in an exception, and a blank mc_mode gives aobmc.
C12_TableFitsShapes ==
    /\ \A key \in DOMAIN choices : FitsShape(key, choices[key])
    /\ calls > 0 =>
          /\ CompleteTable(choices)
          /\ DOMAIN args.options = DOMAIN choices
          /\ \A key \in DOMAIN choices : args.options[key] = Unwrap(key, choices[key])
    /\ stream # NoStream =>
          /\ Len(stream.filters) = 1
          /\ stream.filters = InterpolationFilter(args.options)
    /\ pc # "raised"
    /\ BlankMcMode => choices[IntrpOpt_mc_mode] = StrV(AOBMC)

\* a call made after 513 was typed for mb_size and 0.1 for input_fps: the
\* table holds the default 16 and the lower edge of the range
C12_Witness ==
    /\ calls = 1
    /\ encoder.invoked
    /\ c_in = <<"5", "1", "3">>
    /\ choices[IntrpOpt_mb_size] = IntV(16)
    /\ choices[GeneralOpt_input_fps] = FloatV(1, 1)
    /\ choices[IntrpOpt_fps] = IntV(144)

----------------------------------------------------------------------------
(* Invocations of make_video that share a working directory *)

Invocations == {1, 2}

Other(i) == 3 - i

tmp_concat_file_name == "~ffmpeg_inputs.txt"

\* the file just created or emptied
EmptyFile == [exists |-> TRUE, header |-> [frames |-> 0, duration |-> 0], records |-> <<>>]

Truncate_Keep(file) == IF file.exists THEN file ELSE EmptyFile

\* open(tmp_concat_file_name, "wb"): the file is created or cut to nothing
Truncate(file) == EmptyFile

\* the buffered writes of one invocation reaching the file from offset 0:
\* they replace what is there item by item and leave a longer rest in place
\* (the file is kept as the header and the records, not as bytes)
Overlay(file, written) ==
    [exists |-> TRUE,
     header |-> written.header,
     records |-> written.records \o
                 (IF Len(file.records) > Len(written.records)
                  THEN Drop(file.records, Len(written.records)) ELSE <<>>)]

\* the names in the shared working directory
SharedListings == {<<NameA, NameQ>>, <<NameQ>>}

SharedPatterns == {<<>>, <<"b">>, <<"x">>}

\* the calls of the invocations: same directory, own pattern and repeat count
SharedCalls ==
    {Args(<<".">>, pat, <<>>, BaseOptions(150, BLEND), EmptyDict, r, FALSE) :
        pat \in SharedPatterns, r \in 1..MaxRepeat}

\* what an earlier invocation may have left in the working directory
LeftOver ==
    {NoFile, ManifestOf(<<Join(Cwd, NameA), Join(Cwd, NameQ)>>, FrameDuration(70), MaxRepeat + 1)}

NotStarted == [pc |-> "none", args |-> <<>>, input_fullpaths |-> <<>>, frame_duration |-> 0,
               stream |-> NoStream, encoder |-> NoEncoder]

Started(a) == [NotStarted EXCEPT !.pc = "get_files", !.args = a]

InitShared ==
    /\ pc = "idle"
    /\ args = <<>>
    /\ listing \in SharedListings
    /\ input_fullpaths = <<>>
    /\ frame_duration = 0
    /\ concat_file \in LeftOver
    /\ output_filepath = <<>>
    /\ stream = NoStream
    /\ encoder = NoEncoder
    /\ captured = "unbound"
    /\ printed = <<>>
    /\ ParseIdle
    /\ MainIdle
    /\ \E a \in SharedCalls, b \in SharedCalls :
          runs \in {<<Started(a), NotStarted>>, <<Started(a), Started(b)>>}

OnlyRun(i, next) ==
    /\ runs' = [runs EXCEPT ![i] = next]
    /\ UNCHANGED <<pc, args, listing, input_fullpaths, frame_duration, output_filepath, stream,
                   encoder, captured, printed>>
    /\ UNCHANGED <<p_vars, d_vars>>

\* frame_duration, get_files, and the return when no file was found
SharedGetFiles(i) ==
    /\ runs[i].pc = "get_files"
    /\ LET run == runs[i]
           found == get_files(run.args.input_dir, run.args.input_pattern, listing)
       IN  OnlyRun(i, [run EXCEPT
                          !.frame_duration = FrameDuration(run.args.options[GeneralOpt_input_fps]),
                          !.input_fullpaths = found.fullpaths,
                          !.pc = IF Len(found.fullpaths) < 1 THEN "returned" ELSE "open"])
    /\ UNCHANGED concat_file

\* with open(tmp_concat_file_name, "wb") as tmp_concat_file
OpenManifest(i) ==
    /\ runs[i].pc = "open"
    /\ concat_file' = Truncate(concat_file)
    /\ OnlyRun(i, [runs[i] EXCEPT !.pc = "write"])

\* the writes, flushed when the with block closes the file
FlushManifest(i) ==
    /\ runs[i].pc = "write"
    /\ LET run == runs[i]
       IN  concat_file' = Overlay(concat_file,
                                  ManifestOf(run.input_fullpaths, run.frame_duration,
                                             run.args.final_frame_dur))
    /\ OnlyRun(i, [runs[i] EXCEPT !.pc = "resolve_path"])

\* the output path, ffmpeg.input, the filters and ffmpeg.output
SharedBuildStream(i) ==
    /\ runs[i].pc = "resolve_path"
    /\ LET run == runs[i]
           res == ResolveOutputPath(run.args.output_filename, run.input_fullpaths)
       IN  OnlyRun(i, IF res.ok
                      THEN [run EXCEPT !.stream = [input |-> tmp_concat_file_name,
                                                   filters |-> InterpolationFilter(run.args.options)
                                                               \o TextOverlayFilter(run.args.overlay_text),
                                                   output |-> res.path],
                                       !.pc = "run"]
                      ELSE [run EXCEPT !.pc = "returned"])
    /\ UNCHANGED concat_file

\* ffmpeg.run: the encoder reads the file the stream names, as it is now
SharedRunEncoder(i) ==
    /\ runs[i].pc = "run"
    /\ \E fails \in BOOLEAN :
          LET run == runs[i]
          IN  OnlyRun(i, [run EXCEPT
                             !.encoder = [invoked |-> TRUE, failed |-> fails,
                                          manifest |-> concat_file,
                                          filters |-> run.stream.filters,
                                          produced |-> IF fails THEN <<>> ELSE run.stream.output],
                             !.pc = "returned"])
    /\ UNCHANGED concat_file

NextShared ==
    \E i \in Invocations :
        \/ SharedGetFiles(i)
        \/ OpenManifest(i)
        \/ FlushManifest(i)
        \/ SharedBuildStream(i)
        \/ SharedRunEncoder(i)

SpecShared == InitShared /\ [][NextShared]_vars

\* the manifest invocation i writes
OwnManifest(i) ==
    ManifestOf(runs[i].input_fullpaths, runs[i].frame_duration, runs[i].args.final_frame_dur)

\* invocation j has not opened the manifest file
NotOpened(j) == runs[j].pc \in {"none", "get_files", "open"}

\* invocation j has written its manifest
Wrote(j) == runs[j].pc \in {"resolve_path", "run", "returned"} /\ runs[j].input_fullpaths # <<>>

\* C13: an invocation whose encoder ran while no other invocation had
\* opened ~ffmpeg_inputs.txt in the working directory read exactly the
\* manifest it wrote itself, whatever an earlier invocation left there.
C13_AloneReadsOwnManifest ==
    \A i \in Invocations :
        runs[i].encoder.invoked /\ NotOpened(Other(i)) =>
            runs[i].encoder.manifest = OwnManifest(i)

\* two invocations interleaved: the encoder of one read the manifest the other
\* wrote, which is not its own
C13_Witness ==
    \E i \in Invocations :
        /\ runs[i].encoder.invoked
        /\ Wrote(Other(i))
        /\ runs[i].encoder.manifest = OwnManifest(Other(i))
        /\ runs[i].encoder.manifest # OwnManifest(i)

\* the encoder of one read the header and first records of the other followed
\* by the rest of its own, longer manifest
PartlyOverwritten ==
    \E i \in Invocations :
        /\ runs[i].encoder.invoked
        /\ Wrote(Other(i))
        /\ runs[i].input_fullpaths # <<>>
        /\ runs[i].encoder.manifest = Overlay(OwnManifest(i), OwnManifest(Other(i)))
        /\ runs[i].encoder.manifest \notin {OwnManifest(i), OwnManifest(Other(i))}

\* the encoder of one read the file the other had just emptied
ReadEmptied ==
    \E i \in Invocations :
        /\ runs[i].encoder.invoked
        /\ runs[i].encoder.manifest = EmptyFile

====
